---- MODULE Spec2Model ----
(***************************************************************************)
(* polski-ls: a Polish spell-check / completion language server.           *)
(*                                                                         *)
(* The module models the algorithmic core of the server:                   *)
(*   - pos_conv.rs   LineIndex (offset <-> LSP position)                   *)
(*   - backend.rs    extract_words, is_word_char, apply_capitalization,    *)
(*                   calculate_completion_score, publish_diagnostics,      *)
(*                   generate_completions, code_action and the handlers    *)
(*                   of the session                                        *)
(*   - dictionary.rs SimpleDictionary (add_word, add_user_word, contains,  *)
(*                   fuzzy_match) and levenshtein_distance                 *)
(*                                                                         *)
(* A Rust char is modelled by its Unicode scalar value (an integer), a     *)
(* Vec<char> by a sequence of them.  Rust indices are 0-based, TLA+        *)
(* sequences 1-based: source[i] of the code is source[i + 1] here.         *)
(*                                                                         *)
(* Each component has its own specification over its own variables; the    *)
(* other components' variables stay at their initial values.               *)
(*   SpecDoc   LineIndex and the tokenizer over one document               *)
(*   SpecLev   levenshtein_distance over pairs of words                    *)
(*   SpecDict  the SimpleDictionary store and its user dictionary file     *)
(*   SpecLookup  trait Dictionary (contains, fuzzy_match) on a built store *)
(*   SpecRank  calculate_completion_score and apply_capitalization         *)
(*   SpecBackend  one request handled on an open document                  *)
(*   Spec      the session: handlers in flight, the two locks, the client  *)
(***************************************************************************)
EXTENDS Integers, Sequences, FiniteSets, TLC

VARIABLES
    \* --- one document (DocumentState) and the conversions applied to it
    doc,          \* [source, line_index]: backend.rs DocumentState
    index,        \* the offset last given to index_to_position
    position,     \* the Position last produced or received
    cursor_idx,   \* the offset last returned by position_to_index
    tokens,       \* the result of extract_words(doc.source)
    doc_step,     \* which operation was applied last
    \* --- levenshtein_distance
    lev_a,        \* first argument
    lev_b,        \* second argument
    distance,     \* levenshtein_distance(lev_a, lev_b), once measured
    lev_step,
    \* --- SimpleDictionary
    words,          \* Vec<(Vec<char>, bool)>
    loaded,         \* the entries add_word pushed: the store as constructed
    user_dict_path, \* Option<PathBuf>: "Some" or "None"
    user_dict_file, \* the lines appended to the user dictionary file
    call,           \* the last operation on the dictionary and its result
    \* --- calculate_completion_score
    query,
    candidate,
    edit_distance,
    is_common,
    score,
    label,        \* apply_capitalization(query, candidate), once applied
    rank_step,
    \* --- Backend: the request handlers
    documents,    \* Mutex<HashMap<Uri, DocumentState>>: uri -> <<>> or <<state>>
    request,      \* the request last handled
    response,     \* what its handler computed and returned
    \* --- the session: handlers in flight
    tasks,           \* task -> the handler it runs, its position and locals
    documents_lock,  \* the task that holds Backend::documents, or 0
    dictionary_lock, \* the task that holds Backend::dictionary, or 0
    published        \* the diagnostics the client got last, and from whom

docVars  == <<doc, index, position, cursor_idx, tokens, doc_step>>
levVars  == <<lev_a, lev_b, distance, lev_step>>
dictVars == <<words, loaded, user_dict_path, user_dict_file, call>>
rankVars == <<query, candidate, edit_distance, is_common, score, label, rank_step>>
backendVars == <<documents, request, response>>
sessionVars == <<tasks, documents_lock, dictionary_lock, published>>
vars     == <<docVars, levVars, dictVars, rankVars, backendVars, sessionVars>>

\* what each component's actions leave alone
notDocVars  == <<levVars, dictVars, rankVars, backendVars, sessionVars>>
notLevVars  == <<docVars, dictVars, rankVars, backendVars, sessionVars>>
notDictVars == <<docVars, levVars, rankVars, backendVars, sessionVars>>
notRankVars == <<docVars, levVars, dictVars, backendVars, sessionVars>>
notBackendVars == <<docVars, levVars, rankVars, sessionVars>>
notSessionVars == <<docVars, levVars, rankVars, dictVars>>

(***************************************************************************)
(* Bounds of the model.                                                    *)
(***************************************************************************)
MaxDocLen == 4      \* longest document, in codepoints
MaxLine == 2        \* largest line number a client position carries
MaxColumn == 4      \* largest column a client position carries
MaxWordLen == 2     \* longest word given to levenshtein_distance
MaxWords == 3       \* most entries of a store that add_word / add_user_word grow
MaxStore == 3       \* most entries of a store that is looked up
MaxResults == 2     \* largest max_results given to fuzzy_match
MaxScoreLen == 2    \* longest query / candidate given to the scorer
MaxTasks == 2       \* most handlers in flight at once

(***************************************************************************)
(* Characters.                                                             *)
(***************************************************************************)
\* The characters the model draws its inputs from, by Unicode scalar value.
Ch == [newline |-> 10,    \* '\n'
       comma |-> 44,      \* ','
       digit1 |-> 49,     \* '1'
       A |-> 65, a |-> 97, b |-> 98,
       N_acute |-> 323,   \* U+0143 LATIN CAPITAL LETTER N WITH ACUTE
       n_acute |-> 324,   \* U+0144 LATIN SMALL LETTER N WITH ACUTE
       emoji |-> 128512]  \* U+1F600, outside the Basic Multilingual Plane

\* The Polish diacritics the code enumerates: lower case and upper case,
\* in the order of the source ('ą' 'ć' 'ę' 'ł' 'ń' 'ó' 'ś' 'ź' 'ż').
PolishLower == <<261, 263, 281, 322, 324, 243, 347, 378, 380>>
PolishUpper == <<260, 262, 280, 321, 323, 211, 346, 377, 379>>

Range(s) == {s[k] : k \in DOMAIN s}

\* char::len_utf16
len_utf16(ch) == IF ch < 65536 THEN 1 ELSE 2

\* char::to_ascii_lowercase, the folding behind eq_ignore_ascii_case
to_ascii_lowercase(ch) == IF ch >= 65 /\ ch <= 90 THEN ch + 32 ELSE ch

\* char::eq_ignore_ascii_case
eq_ignore_ascii_case(x, y) == to_ascii_lowercase(x) = to_ascii_lowercase(y)

\* char::to_lowercase (Unicode); every letter of the model lowercases to a
\* single codepoint.
to_lowercase(ch) ==
    IF ch >= 65 /\ ch <= 90 THEN ch + 32
    ELSE IF ch \in Range(PolishUpper)
         THEN PolishLower[CHOOSE k \in DOMAIN PolishUpper : PolishUpper[k] = ch]
         ELSE ch

\* char::to_uppercase (Unicode), likewise
to_uppercase(ch) ==
    IF ch >= 97 /\ ch <= 122 THEN ch - 32
    ELSE IF ch \in Range(PolishLower)
         THEN PolishUpper[CHOOSE k \in DOMAIN PolishLower : PolishLower[k] = ch]
         ELSE ch

\* char::is_ascii_digit
is_ascii_digit(ch) == ch >= 48 /\ ch <= 57

\* char::is_alphanumeric, on the characters of the model
is_alphanumeric(ch) ==
    \/ is_ascii_digit(ch)
    \/ ch >= 65 /\ ch <= 90
    \/ ch >= 97 /\ ch <= 122
    \/ ch \in Range(PolishLower) \cup Range(PolishUpper)

\* backend.rs is_word_char
is_word_char(ch) ==
    is_alphanumeric(ch) \/ ch \in Range(PolishLower) \cup Range(PolishUpper)

\* All sequences over S of length at most n.
SeqsUpTo(S, n) == UNION {[1..k -> S] : k \in 0..n}

Min(x, y) == IF x <= y THEN x ELSE y

(***************************************************************************)
(* pos_conv.rs: LineIndex.                                                 *)
(***************************************************************************)
\* LineIndex::new: 0, then the offset after every '\n'.
RECURSIVE LineStartsFrom(_, _, _)
LineStartsFrom(source, idx, line_starts) ==
    IF idx >= Len(source) THEN line_starts
    ELSE LineStartsFrom(source, idx + 1,
            IF source[idx + 1] = Ch.newline
            THEN Append(line_starts, idx + 1)
            ELSE line_starts)

LineIndexNew(source) == LineStartsFrom(source, 0, <<0>>)

DocumentState(source) == [source |-> source, line_index |-> LineIndexNew(source)]

\* slice::binary_search on the strictly increasing line_starts, followed by
\* the match of index_to_position: Ok(line) => line, Err(line) => line - 1
\* (saturating).
LineOfIndex(line_starts, idx) ==
    IF \E k \in DOMAIN line_starts : line_starts[k] = idx
    THEN (CHOOSE k \in DOMAIN line_starts : line_starts[k] = idx) - 1
    ELSE LET ins == Cardinality({k \in DOMAIN line_starts : line_starts[k] < idx})
         IN  IF ins = 0 THEN 0 ELSE ins - 1

\* Sum of len_utf16 over source[from..to] (0-based, to exclusive).
RECURSIVE Utf16Len(_, _, _)
Utf16Len(source, from, to) ==
    IF from >= to THEN 0
    ELSE len_utf16(source[from + 1]) + Utf16Len(source, from + 1, to)

\* line_starts.get(line)
HasLine(line_starts, line) == line + 1 \in DOMAIN line_starts

\* LineIndex::index_to_position
index_to_position(line_starts, source, idx) ==
    LET line == LineOfIndex(line_starts, idx)
        line_start == IF HasLine(line_starts, line) THEN line_starts[line + 1] ELSE 0
    IN  [line |-> line,
         character |-> Utf16Len(source, line_start, Min(idx, Len(source)))]

\* the end of line line_idx: the next line's start, or the source's length
LineEnd(line_starts, source, line_idx) ==
    IF HasLine(line_starts, line_idx + 1)
    THEN line_starts[line_idx + 2]
    ELSE Len(source)

\* a variant without the clamp to the line's end
PositionToIndexUnclamped(line_starts, source, pos) ==
    IF ~HasLine(line_starts, pos.line)
    THEN IF Len(source) = 0 THEN 0 ELSE Len(source) - 1
    ELSE line_starts[pos.line + 1] + pos.character

\* LineIndex::position_to_index
position_to_index(line_starts, source, pos) ==
    IF ~HasLine(line_starts, pos.line)
    THEN IF Len(source) = 0 THEN 0 ELSE Len(source) - 1
    ELSE LET line_start == line_starts[pos.line + 1]
             line_end == LineEnd(line_starts, source, pos.line)
         IN  IF pos.character > line_end - line_start
             THEN line_end
             ELSE line_start + pos.character

\* LineIndex::is_position_out_of_bounds
is_position_out_of_bounds(line_starts, source, pos) ==
    IF HasLine(line_starts, pos.line)
    THEN LET line_start == line_starts[pos.line + 1]
             line_end == LineEnd(line_starts, source, pos.line)
             raw_line_len == line_end - line_start
             line_len == IF raw_line_len > 0 /\ source[line_end] = Ch.newline
                         THEN raw_line_len - 1
                         ELSE raw_line_len
         IN  pos.character > line_len
    ELSE TRUE

(***************************************************************************)
(* backend.rs: the tokenizer.                                              *)
(***************************************************************************)
\* (mutant) the inner loop missing: a word ends one codepoint after its start
WordEndOneChar(source, i) == i + 1

\* the inner loop of extract_words: the end of the word that starts at i
RECURSIVE WordEnd(_, _)
WordEnd(source, i) ==
    IF i < Len(source) /\ is_word_char(source[i + 1])
    THEN WordEnd(source, i + 1)
    ELSE i

\* the outer loop of extract_words, from offset i with `found` collected
RECURSIVE ExtractFrom(_, _, _)
ExtractFrom(source, i, found) ==
    IF i >= Len(source) THEN found
    ELSE IF ~is_word_char(source[i + 1])
         THEN ExtractFrom(source, i + 1, found)
         ELSE LET start == i
                  end == WordEnd(source, i)
              IN  ExtractFrom(source, end,
                     Append(found, [word |-> SubSeq(source, start + 1, end),
                                    start |-> start, end |-> end]))

extract_words(source) == ExtractFrom(source, 0, <<>>)

(***************************************************************************)
(* The document specification: one document, converted and tokenized.      *)
(***************************************************************************)
\* Characters of the documents: a line terminator, a separator, an ASCII
\* letter, a Polish letter and a codepoint of two UTF-16 units.
DocChars == {Ch.newline, Ch.comma, Ch.a, Ch.n_acute, Ch.emoji}

Documents == SeqsUpTo(DocChars, MaxDocLen)

NoPosition == [line |-> 0, character |-> 0]

DocIdle ==
    /\ doc = DocumentState(<<>>)
    /\ index = 0
    /\ position = NoPosition
    /\ cursor_idx = 0
    /\ tokens = <<>>
    /\ doc_step = "built"

\* did_open: any text, with the LineIndex built from it
DocInit ==
    /\ doc \in {DocumentState(s) : s \in Documents}
    /\ index = 0
    /\ position = NoPosition
    /\ cursor_idx = 0
    /\ tokens = <<>>
    /\ doc_step = "built"

\* index_to_position of an offset of the document
IndexToPosition(o) ==
    /\ index' = o
    /\ position' = index_to_position(doc.line_index, doc.source, o)
    /\ cursor_idx' = 0
    /\ tokens' = <<>>
    /\ doc_step' = "position"
    /\ UNCHANGED <<doc, notDocVars>>

\* a position arrives from the client
RequestPosition(l, c) ==
    /\ index' = 0
    /\ position' = [line |-> l, character |-> c]
    /\ cursor_idx' = 0
    /\ tokens' = <<>>
    /\ doc_step' = "request"
    /\ UNCHANGED <<doc, notDocVars>>

\* position_to_index of the position last produced or received
PositionToIndex ==
    /\ doc_step \in {"position", "request"}
    /\ cursor_idx' = position_to_index(doc.line_index, doc.source, position)
    /\ doc_step' = IF doc_step = "position" THEN "round_trip" ELSE "resolved"
    /\ UNCHANGED <<doc, index, position, tokens, notDocVars>>

\* extract_words of the document
ExtractWords ==
    /\ tokens' = extract_words(doc.source)
    /\ index' = 0
    /\ position' = NoPosition
    /\ cursor_idx' = 0
    /\ doc_step' = "tokens"
    /\ UNCHANGED <<doc, notDocVars>>

DocNext ==
    \/ \E o \in 0..Len(doc.source) : IndexToPosition(o)
    \/ \E l \in 0..MaxLine, c \in 0..MaxColumn : RequestPosition(l, c)
    \/ PositionToIndex
    \/ ExtractWords

(***************************************************************************)
(* Claims on the document specification (SpecDoc).                         *)
(***************************************************************************)
\* C1: for every offset o of a document whose column lies within its line's
\* content length, position_to_index(index_to_position(o)) = o, also on
\* lines that hold codepoints of two UTF-16 units.
C1_RoundTripReturnsOffset ==
    (/\ doc_step = "round_trip"
     /\ ~is_position_out_of_bounds(doc.line_index, doc.source, position))
    => cursor_idx = index

\* C12: position_to_index answers every position with an offset in
\* [0, len]: a line beyond the last one gives the last valid offset (len - 1,
\* or 0 for an empty document), and a column greater than the line's length
\* in UTF-16 units gives the line's end offset, just past its terminator or
\* the document length on the last line.
C12_PositionToIndexClamps ==
    doc_step = "resolved" =>
        LET s == doc.source
            n == Len(s)
            NL(k) == Cardinality({p \in 1..k : s[p] = Ch.newline})
            content == {p \in 1..n : NL(p - 1) = position.line /\ s[p] # Ch.newline}
            units == Cardinality(content) + Cardinality({p \in content : s[p] > 65535})
            last == CHOOSE o \in 0..n :
                        /\ NL(o) = position.line
                        /\ \A o2 \in 0..n : NL(o2) = position.line => o2 <= o
        IN  /\ cursor_idx \in 0..n
            /\ position.line > NL(n) => cursor_idx = IF n = 0 THEN 0 ELSE n - 1
            /\ (position.line <= NL(n) /\ position.character > units)
                   => cursor_idx = IF last < n THEN last + 1 ELSE n

\* C12 witness: column 3 on the line "emoji, newline" (2 units of content)
\* resolves to offset 2, just past the newline
C12_Witness ==
    /\ doc_step = "resolved"
    /\ doc.source = <<Ch.emoji, Ch.newline, Ch.a>>
    /\ position = [line |-> 0, character |-> 3]
    /\ cursor_idx = 2

\* C9: extract_words returns, in ascending offset order, exactly one
\* (word, start, end) for each maximal run of word characters: start < end,
\* word = source[start..end], the span holds only word characters, the
\* codepoints just before and just after it are not word characters, and
\* every word character of the source lies in some span.
C9_ExtractWordsMaximalRuns ==
    doc_step = "tokens" =>
        LET s == doc.source
        IN  /\ \A k \in DOMAIN tokens :
                 LET t == tokens[k]
                 IN  /\ 0 <= t.start /\ t.start < t.end /\ t.end <= Len(s)
                     /\ t.word = [p \in 1..(t.end - t.start) |-> s[t.start + p]]
                     /\ \A p \in (t.start + 1)..t.end : is_word_char(s[p])
                     /\ t.start > 0 => ~is_word_char(s[t.start])
                     /\ t.end < Len(s) => ~is_word_char(s[t.end + 1])
            /\ \A k \in DOMAIN tokens :
                 k < Len(tokens) => tokens[k].end < tokens[k + 1].start
            /\ \A p \in DOMAIN s :
                 is_word_char(s[p]) =>
                     \E k \in DOMAIN tokens :
                         tokens[k].start < p /\ p <= tokens[k].end

\* C9 witness: two words, the first two letters long with a Polish letter,
\* separated by a comma.
C9_Witness ==
    /\ doc_step = "tokens"
    /\ Len(tokens) = 2
    /\ tokens[1].word = <<Ch.a, Ch.n_acute>>
    /\ tokens[2].start = 3

(***************************************************************************)
(* dictionary.rs: levenshtein_distance.                                    *)
(***************************************************************************)
\* (mutant) only the second codepoint is lowercased before the comparison
SubstitutionCostOneSided(x, y) == IF x = to_ascii_lowercase(y) THEN 0 ELSE 1

\* the substitution cost of levenshtein_distance
SubstitutionCost(x, y) == IF eq_ignore_ascii_case(x, y) THEN 0 ELSE 1

Min3(x, y, z) == Min(Min(x, y), z)

\* the inner loop (for j in 1..=n) of row i: curr_row holds entries 0..j-1
RECURSIVE CurrRow(_, _, _, _, _)
CurrRow(a, b, i, prev_row, curr_row) ==
    IF Len(curr_row) = Len(b) + 1 THEN curr_row
    ELSE LET j == Len(curr_row)
             cost == SubstitutionCost(a[i], b[j])
         IN  CurrRow(a, b, i, prev_row,
                Append(curr_row, Min3(prev_row[j + 1] + 1,    \* deletion
                                      curr_row[j] + 1,        \* insertion
                                      prev_row[j] + cost)))   \* substitution

\* the outer loop (for i in 1..=m): prev_row after the rows i..m
RECURSIVE LastRow(_, _, _, _)
LastRow(a, b, i, prev_row) ==
    IF i > Len(a) THEN prev_row
    ELSE LastRow(a, b, i + 1, CurrRow(a, b, i, prev_row, <<i>>))

\* the cap of the u8 result
U8Max == 255

levenshtein_distance(a, b) ==
    LET m == Len(a)
        n == Len(b)
    IN  IF m = 0 THEN Min(n, U8Max)
        ELSE IF n = 0 THEN Min(m, U8Max)
        ELSE Min(LastRow(a, b, 1, [j \in 1..(n + 1) |-> j - 1])[n + 1], U8Max)

(***************************************************************************)
(* The edit-distance specification: pairs of words, measured.              *)
(***************************************************************************)
\* Two ASCII letters that differ only in case and two Polish ones.
LevChars == {Ch.a, Ch.A, Ch.n_acute, Ch.N_acute}

LevWords == SeqsUpTo(LevChars, MaxWordLen)

LevIdle == lev_a = <<>> /\ lev_b = <<>> /\ distance = 0 /\ lev_step = "idle"

LevInit ==
    /\ lev_a \in LevWords
    /\ lev_b \in LevWords
    /\ distance = 0
    /\ lev_step = "input"

\* levenshtein_distance(lev_a, lev_b)
LevenshteinDistance ==
    /\ lev_step = "input"
    /\ distance' = levenshtein_distance(lev_a, lev_b)
    /\ lev_step' = "measured"
    /\ UNCHANGED <<lev_a, lev_b, notLevVars>>

\* the next query: the same two words, the other way round
SwapArguments ==
    /\ lev_step = "measured"
    /\ lev_a' = lev_b
    /\ lev_b' = lev_a
    /\ distance' = 0
    /\ lev_step' = "input"
    /\ UNCHANGED notLevVars

LevNext ==
    \/ LevenshteinDistance
    \/ SwapArguments

\* the sequence with every codepoint lowercased (Unicode case folding)
Fold(w) == [p \in DOMAIN w |-> to_lowercase(w[p])]

\* C2: a substitution costs 0 whenever the two codepoints case-fold equal,
\* so two sequences that differ only in letter case, the Polish letters
\* included, have distance 0.
C2_CaseFoldEqualHaveDistanceZero ==
    (lev_step = "measured" /\ Fold(lev_a) = Fold(lev_b)) => distance = 0

\* C3: levenshtein_distance is a pseudo-metric: distance(a, a) = 0,
\* distance(a, b) = distance(b, a), and
\* distance(a, b) <= distance(a, c) + distance(c, b) for every c.
C3_PseudoMetric ==
    lev_step = "measured" =>
        /\ lev_a = lev_b => distance = 0
        /\ distance = levenshtein_distance(lev_b, lev_a)
        /\ \A c \in LevWords :
             distance <= levenshtein_distance(lev_a, c)
                         + levenshtein_distance(c, lev_b)

\* C3 witness: two different words at distance 2 with a third word strictly
\* between them (distance 1 from each).
C3_Witness ==
    /\ lev_step = "measured"
    /\ lev_a # lev_b
    /\ distance = 2
    /\ \E c \in LevWords :
         /\ levenshtein_distance(lev_a, c) = 1
         /\ levenshtein_distance(c, lev_b) = 1

(***************************************************************************)
(* backend.rs: calculate_completion_score.                                 *)
(***************************************************************************)
\* the edit distance penalty
DistancePenalty(d) ==
    CASE d = 0 -> 0
      [] d = 1 -> 20
      [] d = 2 -> 50
      [] OTHER -> 100

\* zip, take_while(eq_ignore_ascii_case), count: from 0-based position k
RECURSIVE PrefixMatchFrom(_, _, _)
PrefixMatchFrom(q, c, k) ==
    IF k < Len(q) /\ k < Len(c) /\ eq_ignore_ascii_case(q[k + 1], c[k + 1])
    THEN PrefixMatchFrom(q, c, k + 1)
    ELSE k

calculate_completion_score(q, c, d, common) ==
    100 - DistancePenalty(d)
    + (IF Len(q) > 0 /\ Len(c) > 0
       THEN IF eq_ignore_ascii_case(q[1], c[1]) THEN 50 ELSE -30
       ELSE 0)
    + PrefixMatchFrom(q, c, 0) * 8
    + (IF common THEN 35 ELSE 0)

(***************************************************************************)
(* backend.rs: apply_capitalization.                                       *)
(***************************************************************************)
\* char::is_uppercase on the letters of the model
is_uppercase(ch) == ch \in 65..90 \/ ch \in Range(PolishUpper)

\* a variant that upper-cases every codepoint of the suggestion
ApplyCapitalizationAll(original, suggestion) ==
    IF original # <<>> /\ is_uppercase(original[1])
    THEN [p \in 1..Len(suggestion) |-> to_uppercase(suggestion[p])]
    ELSE suggestion

\* first.to_uppercase().next().unwrap_or(*first) on the first char when the
\* original starts with an upper-case char; suggestion.to_string() otherwise
apply_capitalization(original, suggestion) ==
    IF original # <<>> /\ is_uppercase(original[1])
    THEN [p \in 1..Len(suggestion) |->
            IF p = 1 THEN to_uppercase(suggestion[p]) ELSE suggestion[p]]
    ELSE suggestion

(***************************************************************************)
(* The ranking specification: a query and a candidate, scored and          *)
(* capitalized.                                                            *)
(***************************************************************************)
ScoreChars == {Ch.a, Ch.A, Ch.n_acute, Ch.N_acute}

\* "test" is the word of test_calculate_completion_score_exact_match
TestWord == <<116, 101, 115, 116>>

ScoreWords == SeqsUpTo(ScoreChars, MaxScoreLen) \cup {TestWord}

\* edit distances given to the scorer: 0, 1, 2, and two "other" values
ScoreDistances == {0, 1, 2, 3, U8Max}

RankIdle ==
    /\ query = <<>> /\ candidate = <<>> /\ edit_distance = 0
    /\ is_common = FALSE /\ score = 0 /\ label = <<>> /\ rank_step = "idle"

RankInit ==
    /\ query \in ScoreWords
    /\ candidate \in ScoreWords
    /\ edit_distance = 0
    /\ is_common = FALSE
    /\ score = 0
    /\ label = <<>>
    /\ rank_step = "input"

\* calculate_completion_score(query, candidate, d, common)
CalculateCompletionScore(d, common) ==
    /\ edit_distance' = d
    /\ is_common' = common
    /\ score' = calculate_completion_score(query, candidate, d, common)
    /\ rank_step' = "scored"
    /\ UNCHANGED <<query, candidate, label, notRankVars>>

\* apply_capitalization(query, candidate)
ApplyCapitalization ==
    /\ label' = apply_capitalization(query, candidate)
    /\ rank_step' = "capitalized"
    /\ UNCHANGED <<query, candidate, edit_distance, is_common, score, notRankVars>>

RankNext ==
    \/ \E d \in ScoreDistances, common \in BOOLEAN : CalculateCompletionScore(d, common)
    \/ ApplyCapitalization

\* the length of the longest common prefix under Unicode case folding
RECURSIVE FoldedPrefixLen(_, _, _)
FoldedPrefixLen(q, c, k) ==
    IF k < Len(q) /\ k < Len(c) /\ to_lowercase(q[k + 1]) = to_lowercase(c[k + 1])
    THEN FoldedPrefixLen(q, c, k + 1)
    ELSE k

\* C10: the score is 100, minus 0/20/50/100 for d = 0/1/2/other, plus 50 if
\* both are non-empty and their first codepoints case-fold equal or minus 30
\* if they do not, plus 8 per codepoint of the longest common prefix under
\* case folding, plus 35 if common.
C10_ScoreFormula ==
    rank_step = "scored" =>
        score = 100
                - (IF edit_distance = 0 THEN 0
                   ELSE IF edit_distance = 1 THEN 20
                   ELSE IF edit_distance = 2 THEN 50 ELSE 100)
                + (IF query # <<>> /\ candidate # <<>>
                   THEN IF to_lowercase(query[1]) = to_lowercase(candidate[1])
                        THEN 50 ELSE -30
                   ELSE 0)
                + 8 * FoldedPrefixLen(query, candidate, 0)
                + (IF is_common THEN 35 ELSE 0)

\* C11: when the original is non-empty and starts with an upper-case
\* codepoint, the result is the suggestion with its first codepoint
\* upper-cased and every other codepoint unchanged; in every other case the
\* result is the suggestion itself.
C11_CapitalizationFollowsOriginal ==
    rank_step = "capitalized" =>
        IF query # <<>> /\ (query[1] \in 65..90 \/ query[1] \in Range(PolishUpper))
        THEN /\ Len(label) = Len(candidate)
             /\ \A p \in 1..Len(candidate) :
                    label[p] = IF p = 1
                               THEN to_uppercase(candidate[1])
                               ELSE candidate[p]
        ELSE label = candidate

\* "Ńa" capitalizes "ńa" to "Ńa": the first codepoint changes, the second,
\* a lower-case letter too, does not
C11_Witness ==
    /\ rank_step = "capitalized"
    /\ query = <<Ch.N_acute, Ch.a>>
    /\ candidate = <<Ch.n_acute, Ch.a>>
    /\ label = <<Ch.N_acute, Ch.a>>

(***************************************************************************)
(* dictionary.rs: SimpleDictionary.                                        *)
(***************************************************************************)
\* one element of SimpleDictionary::words
Entry(word, common) == [word |-> word, is_common |-> common]

\* (mutant) the comparison of levenshtein_distance used for the lookup
ContainsAsciiFold(ws, word) ==
    \E k \in DOMAIN ws :
        /\ Len(ws[k].word) = Len(word)
        /\ \A p \in DOMAIN word : eq_ignore_ascii_case(ws[k].word[p], word[p])

\* Dictionary::contains
contains(ws, word) ==
    \E k \in DOMAIN ws :
        /\ Len(ws[k].word) = Len(word)
        /\ \A p \in DOMAIN word :
             to_lowercase(ws[k].word[p]) = to_lowercase(word[p])

\* SimpleDictionary::add_word
add_word(ws, word, common) == Append(ws, Entry(word, common))

\* The outcomes of the file system calls of add_user_word: all succeed, or
\* create_dir_all, open or writeln! returns an error.
IoOutcomes == {"ok", "create_dir_all", "open", "write"}

\* (mutant) the word is pushed only once it has been written to the file
AddUserWordPersistFirst(ws, path, file, word, io) ==
    IF contains(ws, word)
    THEN [words |-> ws, file |-> file, result |-> "Ok"]
    ELSE IF path = "Some" /\ io = "ok"
         THEN [words |-> Append(ws, Entry(word, FALSE)),
               file |-> Append(file, word), result |-> "Ok"]
         ELSE [words |-> ws, file |-> file, result |-> "Err"]

\* (mutant) the presence check compares the words exactly
AddUserWordExactCheck(ws, path, file, word, io) ==
    IF \E k \in DOMAIN ws : ws[k].word = word
    THEN [words |-> ws, file |-> file, result |-> "Ok"]
    ELSE IF path = "Some" /\ io = "ok"
         THEN [words |-> Append(ws, Entry(word, FALSE)),
               file |-> Append(file, word), result |-> "Ok"]
         ELSE [words |-> Append(ws, Entry(word, FALSE)),
               file |-> file, result |-> "Err"]

\* SimpleDictionary::add_user_word: the store and the file it leaves, and
\* what it returns.  The file is the list of the complete lines appended
\* to it: a failed create_dir_all, open or writeln! adds none.
add_user_word(ws, path, file, word, io) ==
    IF contains(ws, word)
    THEN [words |-> ws, file |-> file, result |-> "Ok"]
    ELSE LET pushed == Append(ws, Entry(word, FALSE))
         IN  IF path = "Some"
             THEN IF io = "ok"
                  THEN [words |-> pushed, file |-> Append(file, word),
                        result |-> "Ok"]
                  ELSE [words |-> pushed, file |-> file, result |-> "Err"]
             ELSE [words |-> pushed, file |-> file, result |-> "Err"]

\* the FuzzyMatchResult of one entry
FuzzyMatchResult(e, prefix) ==
    [word |-> e.word,
     edit_distance |-> levenshtein_distance(prefix, e.word),
     is_common |-> e.is_common]

\* the filter_map of fuzzy_match: the entries within max_edit_distance, in
\* the order of the store
Filtered(ws, prefix, max_edit_distance) ==
    SelectSeq([k \in DOMAIN ws |-> FuzzyMatchResult(ws[k], prefix)],
              LAMBDA m : m.edit_distance <= max_edit_distance)

\* (mutant) the comparator without its then_with
MatchBeforeByDistance(x, y) == x.edit_distance < y.edit_distance

\* the comparator of results.sort_by returns Less
MatchBefore(x, y) ==
    \/ x.edit_distance < y.edit_distance
    \/ x.edit_distance = y.edit_distance /\ x.is_common /\ ~y.is_common

\* slice::sort_by is a stable sort: every element goes behind the elements
\* already placed that it is not Less than.
InsertSorted(sorted, m) ==
    LET pos == Cardinality({k \in DOMAIN sorted : ~MatchBefore(m, sorted[k])})
    IN  SubSeq(sorted, 1, pos) \o <<m>> \o SubSeq(sorted, pos + 1, Len(sorted))

RECURSIVE SortFrom(_, _, _)
SortFrom(results, k, sorted) ==
    IF k > Len(results) THEN sorted
    ELSE SortFrom(results, k + 1, InsertSorted(sorted, results[k]))

StableSort(results) == SortFrom(results, 1, <<>>)

\* Vec::truncate
Truncate(results, len) == SubSeq(results, 1, Min(len, Len(results)))

\* a variant that truncates before it sorts
FuzzyMatchTruncateFirst(ws, prefix, max_edit_distance, max_results) ==
    StableSort(Truncate(Filtered(ws, prefix, max_edit_distance), max_results))

\* Dictionary::fuzzy_match
fuzzy_match(ws, prefix, max_edit_distance, max_results) ==
    Truncate(StableSort(Filtered(ws, prefix, max_edit_distance)), max_results)

(***************************************************************************)
(* The words of the dictionary specifications.                             *)
(***************************************************************************)
Word == [an |-> <<Ch.a, Ch.n_acute>>,       \* "ań"
         AN |-> <<Ch.A, Ch.N_acute>>,       \* "AŃ"
         An |-> <<Ch.A, Ch.n_acute>>,       \* "Ań"
         ab |-> <<Ch.a, Ch.b>>,             \* "ab"
         n  |-> <<Ch.n_acute>>]             \* "ń"

\* the words that are stored
StoreWords == {Word.an, Word.AN, Word.ab}

\* the words that are looked up
LookupWords == StoreWords \cup {Word.An, Word.n}

StoreEntries == {Entry(w, c) : w \in StoreWords, c \in BOOLEAN}

\* the max_edit_distance of the callers (1 or 2) and of the tests (0)
EditDistances == {0, 1, 2}

\* `call` is the last operation on the dictionary: its arguments, the store
\* and the file before it, what it returned, and whether the operation
\* before it was the same one on the same word.
NoCall ==
    [op |-> "none", word |-> <<>>, common |-> FALSE, again |-> FALSE,
     before |-> <<>>, file_before |-> <<>>, result |-> "none",
     max_edit_distance |-> 0, max_results |-> 0, matches |-> <<>>]

Again(op, word) == call.op = op /\ call.word = word

DictIdle ==
    /\ words = <<>>
    /\ loaded = <<>>
    /\ user_dict_path = "None"
    /\ user_dict_file = <<>>
    /\ call = NoCall

(***************************************************************************)
(* The store specification: SimpleDictionary::new() or                     *)
(* with_user_extensions(), then add_word (the word lists being loaded) and *)
(* add_user_word.                                                          *)
(***************************************************************************)
DictInit ==
    /\ words = <<>>
    /\ loaded = <<>>
    /\ user_dict_path \in {"Some", "None"}
    /\ user_dict_file = <<>>
    /\ call = NoCall

AddWord(word, common) ==
    /\ Len(words) < MaxWords
    /\ words' = add_word(words, word, common)
    /\ loaded' = add_word(loaded, word, common)
    /\ call' = [NoCall EXCEPT !.op = "add_word", !.word = word,
                              !.common = common,
                              !.again = Again("add_word", word),
                              !.before = words,
                              !.file_before = user_dict_file]
    /\ UNCHANGED <<user_dict_path, user_dict_file, notDictVars>>

AddUserWord(word, io) ==
    /\ Len(words) < MaxWords \/ contains(words, word)
    /\ LET out == add_user_word(words, user_dict_path, user_dict_file, word, io)
       IN  /\ words' = out.words
           /\ user_dict_file' = out.file
           /\ call' = [NoCall EXCEPT !.op = "add_user_word", !.word = word,
                                     !.again = Again("add_user_word", word),
                                     !.before = words,
                                     !.file_before = user_dict_file,
                                     !.result = out.result]
    /\ UNCHANGED <<loaded, user_dict_path, notDictVars>>

DictNext ==
    \/ \E w \in StoreWords, c \in BOOLEAN : AddWord(w, c)
    \/ \E w \in StoreWords, io \in IoOutcomes : AddUserWord(w, io)

\* C5: add_word appends only when contains(word) does not already hold:
\* calling it twice with the same word leaves the size of the store after
\* the second call equal to its size after the first.
C5_AddWordTwiceKeepsSize ==
    (call.op = "add_word" /\ call.again) => Len(words) = Len(call.before)

\* C6: after add_user_word(w) returns, with success or with a persistence
\* error, contains(w) is true and every entry that was in the store before
\* is still there, unchanged and in the same order.
C6_AddUserWordUpdatesMemory ==
    call.op = "add_user_word" =>
        /\ contains(words, call.word)
        /\ Len(words) >= Len(call.before)
        /\ SubSeq(words, 1, Len(call.before)) = call.before

\* C6 witness: add_user_word returned an error (here with a path set, so a
\* file system call failed) and the word is the new last entry.
C6_Witness ==
    /\ call.op = "add_user_word"
    /\ call.result = "Err"
    /\ user_dict_path = "Some"
    /\ call.before # <<>>
    /\ words = Append(call.before, Entry(call.word, FALSE))

\* C7: add_user_word of a word that is already in the store under
\* case-insensitive comparison returns success, leaves the entries
\* unchanged and writes nothing to the user dictionary file.
C7_AddUserWordPresentIsNoOp ==
    (call.op = "add_user_word" /\ contains(call.before, call.word)) =>
        /\ call.result = "Ok"
        /\ words = call.before
        /\ user_dict_file = call.file_before

\* C7 witness: "AŃ" is given while only "ań" is stored, with a path set.
C7_Witness ==
    /\ call.op = "add_user_word"
    /\ call.word = Word.AN
    /\ call.before = <<Entry(Word.an, TRUE)>>
    /\ user_dict_path = "Some"
    /\ call.result = "Ok"

\* C18: whenever add_user_word(w) returns success for a word that was not
\* in the store as constructed, the user dictionary file holds a line with
\* w (compared like contains compares), also when earlier calls for w
\* returned a persistence error.
C18_SuccessMeansPersisted ==
    (/\ call.op = "add_user_word"
     /\ call.result = "Ok"
     /\ ~contains(loaded, call.word))
    => \E k \in DOMAIN user_dict_file :
          /\ Len(user_dict_file[k]) = Len(call.word)
          /\ \A p \in DOMAIN call.word :
                to_lowercase(user_dict_file[k][p]) = to_lowercase(call.word[p])

(***************************************************************************)
(* The lookup specification: trait Dictionary (contains, fuzzy_match) on   *)
(* a store that has been built.                                            *)
(***************************************************************************)
Stores == SeqsUpTo(StoreEntries, MaxStore)

LookupInit ==
    /\ words \in Stores
    /\ loaded = words
    /\ user_dict_path = "None"
    /\ user_dict_file = <<>>
    /\ call = NoCall

\* A behaviour makes one lookup: lookups leave the store as it is, so a
\* second one would see what the first one saw.
Contains(word) ==
    /\ call.op = "none"
    /\ call' = [NoCall EXCEPT !.op = "contains", !.word = word,
                              !.before = words,
                              !.result = IF contains(words, word)
                                         THEN "true" ELSE "false"]
    /\ UNCHANGED <<words, loaded, user_dict_path, user_dict_file, notDictVars>>

FuzzyMatch(prefix, max_edit_distance, max_results) ==
    /\ call.op = "none"
    /\ call' = [NoCall EXCEPT !.op = "fuzzy_match", !.word = prefix,
                              !.before = words,
                              !.max_edit_distance = max_edit_distance,
                              !.max_results = max_results,
                              !.matches = fuzzy_match(words, prefix,
                                             max_edit_distance, max_results)]
    /\ UNCHANGED <<words, loaded, user_dict_path, user_dict_file, notDictVars>>

LookupNext ==
    \/ \E w \in LookupWords : Contains(w)
    \/ \E w \in LookupWords, d \in EditDistances, r \in 0..MaxResults :
         FuzzyMatch(w, d, r)

\* the word with every codepoint uppercased, and with only its first one
Uppercased(w) == [p \in DOMAIN w |-> to_uppercase(w[p])]
Capitalized(w) == [p \in DOMAIN w |-> IF p = 1 THEN to_uppercase(w[p]) ELSE w[p]]

\* C4: contains(word) is true iff some stored entry has the length of word
\* and equals it codepoint by codepoint after case folding; a store that
\* holds a word answers true for its all-uppercase and capitalized forms.
C4_ContainsIsCaseFoldedMembership ==
    call.op = "contains" =>
        /\ call.result = "true" <=>
               \E k \in DOMAIN words : Fold(words[k].word) = Fold(call.word)
        /\ (\E k \in DOMAIN words :
                call.word \in {words[k].word, Uppercased(words[k].word),
                               Capitalized(words[k].word)})
               => call.result = "true"

\* C4 witness: the capitalized form "Ań" is found in a store whose only
\* entry that matches it is "ań".
C4_Witness ==
    /\ call.op = "contains"
    /\ call.word = Word.An
    /\ call.result = "true"
    /\ \E k \in DOMAIN words : words[k].word = Word.an
    /\ \A k \in DOMAIN words : words[k].word \in {Word.an, Word.ab}

\* the entries of seq with the given distance and commonality, in order
KeyClass(seq, d, common) ==
    SelectSeq(seq, LAMBDA m : m.edit_distance = d /\ m.is_common = common)

\* C8: the list fuzzy_match returns has at most max_results entries, is
\* ordered by edit distance ascending, then common before uncommon, and
\* entries equal on both keys are in the insertion order of the store.
C8_FuzzyMatchSortedAndBounded ==
    call.op = "fuzzy_match" =>
        LET res == call.matches
            all == [k \in DOMAIN words |-> FuzzyMatchResult(words[k], call.word)]
        IN  /\ Len(res) <= call.max_results
            /\ \A i, j \in DOMAIN res :
                 i < j =>
                    /\ res[i].edit_distance <= res[j].edit_distance
                    /\ res[i].edit_distance = res[j].edit_distance
                         => (res[i].is_common \/ ~res[j].is_common)
            /\ \A i \in DOMAIN res :
                 LET mine == KeyClass(res, res[i].edit_distance, res[i].is_common)
                     theirs == KeyClass(all, res[i].edit_distance, res[i].is_common)
                 IN  /\ Len(mine) <= Len(theirs)
                     /\ mine = SubSeq(theirs, 1, Len(mine))

\* C8 witness: three entries match at the same distance; the common one,
\* stored last, comes first, the uncommon ones follow in store order, and
\* the list is cut to two.
C8_Witness ==
    /\ call.op = "fuzzy_match"
    /\ call.word = Word.An
    /\ call.max_results = 2
    /\ words = <<Entry(Word.ab, FALSE), Entry(Word.AN, FALSE), Entry(Word.AN, TRUE)>>
    /\ Len(Filtered(words, call.word, call.max_edit_distance)) = 3
    /\ call.matches = <<[word |-> Word.AN, edit_distance |-> 1, is_common |-> TRUE],
                        [word |-> Word.ab, edit_distance |-> 1, is_common |-> FALSE]>>

\* C17: fuzzy_match returns only entries of the store whose distance to the
\* query is at most max_edit_distance, each with that distance and its
\* stored commonality flag; when at most max_results entries qualify it
\* returns all of them; otherwise no omitted qualifying entry sorts strictly
\* before (smaller distance, or equal distance and common before uncommon)
\* a returned one.
C17_FuzzyMatchReturnsBestWithinBudget ==
    call.op = "fuzzy_match" =>
        LET res == call.matches
            Dist(w) == levenshtein_distance(call.word, w)
            Qualify == {k \in DOMAIN words :
                           Dist(words[k].word) <= call.max_edit_distance}
            Result(k) == [word |-> words[k].word,
                          edit_distance |-> Dist(words[k].word),
                          is_common |-> words[k].is_common]
            Returned(v) == Cardinality({i \in DOMAIN res : res[i] = v})
            Stored(v) == Cardinality({k \in Qualify : Result(k) = v})
            Before(x, y) ==
                \/ x.edit_distance < y.edit_distance
                \/ /\ x.edit_distance = y.edit_distance
                   /\ x.is_common /\ ~y.is_common
        IN  /\ \A i \in DOMAIN res :
                 /\ res[i].edit_distance <= call.max_edit_distance
                 /\ res[i].edit_distance = Dist(res[i].word)
                 /\ Returned(res[i]) <= Stored(res[i])
            /\ Cardinality(Qualify) <= call.max_results
                 => /\ Len(res) = Cardinality(Qualify)
                    /\ \A k \in Qualify : Returned(Result(k)) = Stored(Result(k))
            /\ Cardinality(Qualify) > call.max_results
                 => /\ Len(res) = call.max_results
                    /\ \A k \in Qualify :
                          Returned(Result(k)) < Stored(Result(k))
                             => \A i \in DOMAIN res : ~Before(Result(k), res[i])

\* C17 witness: three entries are within distance 1 of "ań"; with
\* max_results 1 only the exact one, stored second, is returned.
C17_Witness ==
    /\ call.op = "fuzzy_match"
    /\ call.word = Word.an
    /\ call.max_edit_distance = 1
    /\ call.max_results = 1
    /\ words = <<Entry(Word.ab, FALSE), Entry(Word.an, TRUE), Entry(Word.AN, FALSE)>>
    /\ call.matches = <<[word |-> Word.an, edit_distance |-> 0, is_common |-> TRUE]>>

(***************************************************************************)
(* backend.rs: the request handlers of Backend, as functions of the        *)
(* document they find in the documents map and of the dictionary.          *)
(***************************************************************************)
\* the limits written in the handlers
CompletionCandidates == 200   \* fuzzy_match(&prefix, max_edit_distance, 200)
CompletionLimit == 50         \* .take(50)
CodeActionSuggestions == 10   \* fuzzy_match(&word, max_edit_distance, 10)

CMD_ADD_TO_DICTIONARY == "polski-ls.addToDictionary"

\* a variant that looks up one- and two-letter words too
IsCheckedWordAnyLength(word) ==
    \E p \in DOMAIN word : ~is_ascii_digit(word[p])

\* publish_diagnostics looks a word up unless it is shorter than 3 chars or
\* all its chars are ASCII digits
IsCheckedWord(word) ==
    /\ ~(Len(word) < 3)
    /\ ~(\A p \in DOMAIN word : is_ascii_digit(word[p]))

\* the Diagnostic pushed for an unknown word
Diagnostic(source, line_index, t) ==
    [range |-> [start |-> index_to_position(line_index, source, t.start),
                end |-> index_to_position(line_index, source, t.end)],
     severity |-> "HINT",
     source |-> "polski-ls",
     message |-> <<"Unknown word: '", t.word, "'">>]

\* the loop of publish_diagnostics over the words from the k-th on
RECURSIVE DiagnosticsFrom(_, _, _, _, _, _)
DiagnosticsFrom(source, line_index, ws, found, k, diagnostics) ==
    IF k > Len(found) THEN diagnostics
    ELSE DiagnosticsFrom(source, line_index, ws, found, k + 1,
            IF IsCheckedWord(found[k].word) /\ ~contains(ws, found[k].word)
            THEN Append(diagnostics, Diagnostic(source, line_index, found[k]))
            ELSE diagnostics)

\* publish_diagnostics: the list given to client.publish_diagnostics
publish_diagnostics(source, line_index, ws) ==
    DiagnosticsFrom(source, line_index, ws, extract_words(source), 1, <<>>)

\* the backward scan of generate_completions and code_action
RECURSIVE WordStart(_, _)
WordStart(source, word_start) ==
    IF word_start > 0 /\ is_word_char(source[word_start])
    THEN WordStart(source, word_start - 1)
    ELSE word_start

\* if len <= 3 { 1 } else { 2 }
MaxEditDistance(word) == IF Len(word) <= 3 THEN 1 ELSE 2

\* format!("{:05}", n): the decimal digits of n, zero-padded to five
Format05(n) ==
    <<(n \div 10000) % 10, (n \div 1000) % 10, (n \div 100) % 10,
      (n \div 10) % 10, n % 10>>

\* the (word, score) made of the k-th fuzzy match; `fuzzy_rank` remembers k
ScoredMatch(prefix, fuzzy_matches, k) ==
    LET m == fuzzy_matches[k]
    IN  [word |-> apply_capitalization(prefix, m.word),
         score |-> calculate_completion_score(prefix, m.word, m.edit_distance,
                                              m.is_common),
         fuzzy_rank |-> k]

\* the comparator of scored.sort_by returns Less: b.1.partial_cmp(&a.1)
ScoredBefore(x, y) == x.score > y.score

InsertScored(sorted, x) ==
    LET pos == Cardinality({k \in DOMAIN sorted : ~ScoredBefore(x, sorted[k])})
    IN  SubSeq(sorted, 1, pos) \o <<x>> \o SubSeq(sorted, pos + 1, Len(sorted))

RECURSIVE SortScoredFrom(_, _, _)
SortScoredFrom(scored, k, sorted) ==
    IF k > Len(scored) THEN sorted
    ELSE SortScoredFrom(scored, k + 1, InsertScored(sorted, scored[k]))

\* the CompletionItem made of the idx-th (0-based) scored word
CompletionItem(scored_word, idx, prefix, word_start_position, position_) ==
    [label |-> scored_word.word,
     kind |-> "TEXT",
     detail |-> "Polish",
     text_edit |-> [range |-> [start |-> word_start_position, end |-> position_],
                    new_text |-> scored_word.word],
     filter_text |-> prefix,
     sort_text |-> Format05(idx + 1)]

NoCompletions == [prefix |-> <<>>, fuzzy_matches |-> <<>>, scored |-> <<>>,
                  items |-> <<>>]

\* generate_completions: `items` is what it returns; prefix, fuzzy_matches
\* and scored are its locals when it returns
generate_completions(document, ws, position_) ==
    IF document = <<>> THEN NoCompletions
    ELSE
    LET source == document[1].source
        line_index == document[1].line_index
    IN  IF is_position_out_of_bounds(line_index, source, position_)
        THEN NoCompletions
        ELSE
        LET cursor == position_to_index(line_index, source, position_)
            word_start == WordStart(source, cursor)
            prefix == SubSeq(source, word_start + 1, cursor)
        IN  IF Len(prefix) < 2 THEN [NoCompletions EXCEPT !.prefix = prefix]
            ELSE
            LET fuzzy_matches == fuzzy_match(ws, prefix, MaxEditDistance(prefix),
                                             CompletionCandidates)
                scored == SortScoredFrom(
                              [k \in DOMAIN fuzzy_matches |->
                                  ScoredMatch(prefix, fuzzy_matches, k)],
                              1, <<>>)
                word_start_position == index_to_position(line_index, source, word_start)
                taken == Truncate(scored, CompletionLimit)
            IN  [prefix |-> prefix,
                 fuzzy_matches |-> fuzzy_matches,
                 scored |-> scored,
                 items |-> [k \in DOMAIN taken |->
                              CompletionItem(taken[k], k - 1, prefix,
                                             word_start_position, position_)]]

\* format!("Add '{}' to dictionary", word_string) and the command it carries
AddToDictionaryAction(uri, word) ==
    [title |-> <<"Add '", word, "' to dictionary">>,
     kind |-> "QUICKFIX",
     command |-> [title |-> <<"Add '", word, "' to dictionary">>,
                  command |-> CMD_ADD_TO_DICTIONARY,
                  arguments |-> [word |-> word, uri |-> uri]]]

\* the action that replaces the word by one fuzzy match
ChangeToAction(uri, word, word_range, m) ==
    LET suggestion == apply_capitalization(word, m.word)
    IN  [title |-> <<"Change to '", suggestion, "'">>,
         kind |-> "QUICKFIX",
         edit |-> [uri |-> uri, range |-> word_range, new_text |-> suggestion]]

\* Ok(None) is <<>>, Ok(Some(actions)) is <<actions>>
NoCodeAction == [word |-> <<>>, fuzzy_matches |-> <<>>, result |-> <<>>]

\* fuzzy_matches.is_empty()
HasNoSuggestions(fuzzy_matches) == fuzzy_matches = <<>>

\* Backend::code_action: `result` is what it returns; word and
\* fuzzy_matches are its locals when it returns
code_action(document, ws, uri, range_start) ==
    IF document = <<>> THEN NoCodeAction
    ELSE
    LET source == document[1].source
        line_index == document[1].line_index
        start_idx == position_to_index(line_index, source, range_start)
        word_start == WordStart(source, start_idx)
        word_end == WordEnd(source, start_idx)
        word == SubSeq(source, word_start + 1, word_end)
    IN  IF word_start = word_end THEN NoCodeAction
        ELSE IF contains(ws, word) THEN [NoCodeAction EXCEPT !.word = word]
        ELSE
        LET fuzzy_matches == fuzzy_match(ws, word, MaxEditDistance(word),
                                         CodeActionSuggestions)
            word_range == [start |-> index_to_position(line_index, source, word_start),
                           end |-> index_to_position(line_index, source, word_end)]
        IN  IF HasNoSuggestions(fuzzy_matches)
            THEN [NoCodeAction EXCEPT !.word = word]
            ELSE [word |-> word,
                  fuzzy_matches |-> fuzzy_matches,
                  result |-> << <<AddToDictionaryAction(uri, word)>> \o
                                [k \in DOMAIN fuzzy_matches |->
                                   ChangeToAction(uri, word, word_range,
                                                  fuzzy_matches[k])] >>]

(***************************************************************************)
(* The handler specification: one document open (or none), a dictionary    *)
(* constructed, and one request handled.                                   *)
(***************************************************************************)
Uri == "file:///a.txt"

BackendChars == {Ch.newline, Ch.a, Ch.A, Ch.n_acute, Ch.digit1, Ch.emoji}

BackendTexts == SeqsUpTo(BackendChars, MaxDocLen)

BackendWord == [aa |-> <<Ch.a, Ch.a>>,
                an |-> <<Ch.a, Ch.n_acute>>,
                aaa |-> <<Ch.a, Ch.a, Ch.a>>,
                aan |-> <<Ch.a, Ch.a, Ch.n_acute>>,
                nnn |-> <<Ch.n_acute, Ch.n_acute, Ch.n_acute>>,
                ab |-> <<Ch.a, Ch.b>>,
                aba |-> <<Ch.a, Ch.b, Ch.a>>]

\* the dictionaries of the handler specification
BackendStores ==
    { <<>>,
      <<Entry(BackendWord.an, FALSE), Entry(BackendWord.aaa, FALSE),
        Entry(BackendWord.aa, TRUE)>>,
      <<Entry(BackendWord.aaa, TRUE), Entry(BackendWord.aan, FALSE),
        Entry(BackendWord.aan, FALSE)>>,
      <<Entry(BackendWord.nnn, FALSE)>> }

\* a dictionary with more than CompletionCandidates entries within
\* distance 1 of "ab": 200 two-letter words that end in "b", then "aba"
CrowdedStore ==
    [k \in 1..CompletionCandidates |-> Entry(<<19968 + k, Ch.b>>, FALSE)]
    \o <<Entry(BackendWord.aba, FALSE)>>

NoRequest == [method |-> "none", index |-> 0, position |-> NoPosition]

NoResponse == [diagnostics |-> <<>>, completion |-> NoCompletions,
               code_action |-> NoCodeAction]

BackendIdle ==
    /\ documents = [u \in {Uri} |-> <<>>]
    /\ request = NoRequest
    /\ response = NoResponse

BackendInit ==
    /\ \/ /\ documents \in [{Uri} -> {<<>>} \cup {<<DocumentState(t)>> : t \in BackendTexts}]
          /\ words \in BackendStores
       \/ /\ documents = [u \in {Uri} |-> <<DocumentState(BackendWord.ab)>>]
          /\ words = CrowdedStore
    /\ loaded = words
    /\ user_dict_path = "None"
    /\ user_dict_file = <<>>
    /\ call = NoCall
    /\ request = NoRequest
    /\ response = NoResponse

\* the offsets a cursor of the client can be at in the document
CursorOffsets == IF documents[Uri] = <<>> THEN {0}
                 ELSE 0..Len(documents[Uri][1].source)

\* the position the client sends for a cursor at offset o of the text
ClientPosition(o) ==
    IF documents[Uri] = <<>> THEN NoPosition
    ELSE index_to_position(documents[Uri][1].line_index,
                           documents[Uri][1].source, o)

\* publish_diagnostics of the open document
PublishDiagnostics ==
    /\ request.method = "none"
    /\ documents[Uri] # <<>>
    /\ request' = [NoRequest EXCEPT !.method = "publish_diagnostics"]
    /\ response' = [NoResponse EXCEPT !.diagnostics =
                        publish_diagnostics(documents[Uri][1].source,
                                            documents[Uri][1].line_index, words)]
    /\ UNCHANGED <<documents, dictVars, notBackendVars>>

\* textDocument/completion with the cursor at offset o
Completion(o) ==
    /\ request.method = "none"
    /\ request' = [method |-> "completion", index |-> o,
                   position |-> ClientPosition(o)]
    /\ response' = [NoResponse EXCEPT !.completion =
                        generate_completions(documents[Uri], words,
                                             ClientPosition(o))]
    /\ UNCHANGED <<documents, dictVars, notBackendVars>>

\* textDocument/codeAction with the range starting at offset o
CodeAction(o) ==
    /\ request.method = "none"
    /\ request' = [method |-> "code_action", index |-> o,
                   position |-> ClientPosition(o)]
    /\ response' = [NoResponse EXCEPT !.code_action =
                        code_action(documents[Uri], words, Uri, ClientPosition(o))]
    /\ UNCHANGED <<documents, dictVars, notBackendVars>>

BackendNext ==
    \/ PublishDiagnostics
    \/ \E o \in CursorOffsets : Completion(o)
    \/ \E o \in CursorOffsets : CodeAction(o)

(***************************************************************************)
(* Claims on the handler specification (SpecBackend).                      *)
(***************************************************************************)
\* the (line, UTF-16 column) of offset o of the text s: the newlines before
\* o, and the UTF-16 units between the start of o's line and o
Utf16Position(s, o) ==
    LET line_start == CHOOSE a \in 0..o :
                         /\ a = 0 \/ s[a] = Ch.newline
                         /\ \A p \in (a + 1)..o : s[p] # Ch.newline
    IN  [line |-> Cardinality({p \in 1..o : s[p] = Ch.newline}),
         character |-> (o - line_start)
                       + Cardinality({p \in (line_start + 1)..o : s[p] > 65535})]

\* the start of the maximal run of word characters that ends at offset o
RunStart(s, o) ==
    CHOOSE a \in 0..o :
        /\ \A p \in (a + 1)..o : is_word_char(s[p])
        /\ a = 0 \/ ~is_word_char(s[a])

\* the end of the maximal run of word characters that starts at offset o
RunEnd(s, o) ==
    CHOOSE b \in o..Len(s) :
        /\ \A p \in (o + 1)..b : is_word_char(s[p])
        /\ b = Len(s) \/ ~is_word_char(s[b + 1])

\* the sort text x is before the sort text y as a string
SortTextLess(x, y) ==
    \E p \in DOMAIN x :
        /\ p \in DOMAIN y
        /\ x[p] < y[p]
        /\ \A q \in 1..(p - 1) : x[q] = y[q]

\* C13: the diagnostics published for a text hold exactly one record for
\* each tokenized word that has at least 3 codepoints, is not made of ASCII
\* digits only and fails contains; the record's range is the word's start
\* and end offsets as (line, UTF-16 column) positions and its message is
\* "Unknown word: '<word>'".
C13_OneDiagnosticPerUnknownWord ==
    request.method = "publish_diagnostics" =>
        LET s == documents[Uri][1].source
            Pos(o) == Utf16Position(s, o)
            unknown == SelectSeq(extract_words(s),
                          LAMBDA t : /\ Len(t.word) >= 3
                                     /\ \E p \in DOMAIN t.word : t.word[p] \notin 48..57
                                     /\ ~contains(words, t.word))
            d == response.diagnostics
        IN  /\ Len(d) = Len(unknown)
            /\ \A k \in DOMAIN unknown :
                  /\ d[k].range = [start |-> Pos(unknown[k].start),
                                   end |-> Pos(unknown[k].end)]
                  /\ d[k].message = <<"Unknown word: '", unknown[k].word, "'">>

\* C13 witness: "aań" after a codepoint of two UTF-16 units is unknown to a
\* dictionary that holds "ńńń": one diagnostic, columns 2 to 5
C13_Witness ==
    /\ request.method = "publish_diagnostics"
    /\ documents[Uri] = <<DocumentState(<<Ch.emoji, Ch.a, Ch.a, Ch.n_acute>>)>>
    /\ words = <<Entry(BackendWord.nnn, FALSE)>>
    /\ Len(response.diagnostics) = 1
    /\ response.diagnostics[1].range = [start |-> [line |-> 0, character |-> 2],
                                        end |-> [line |-> 0, character |-> 5]]
    /\ response.diagnostics[1].message =
          <<"Unknown word: '", <<Ch.a, Ch.a, Ch.n_acute>>, "'">>

\* C14: a completion request whose prefix, the maximal run of word
\* characters ending at the cursor, is shorter than 2 codepoints returns no
\* completions; with a longer prefix it returns at most 50 items, ordered by
\* score descending with equal scores in fuzzy_match order, with sort ranks
\* that increase with the position, each replacing the range from the
\* prefix start to the cursor.
C14_CompletionsForThePrefixAtTheCursor ==
    (request.method = "completion" /\ documents[Uri] # <<>>) =>
        LET s == documents[Uri][1].source
            o == request.index
            start == RunStart(s, o)
            items == response.completion.items
            scored == response.completion.scored
        IN  IF o - start < 2
            THEN items = <<>>
            ELSE /\ Len(items) <= 50
                 /\ \A i, j \in DOMAIN items :
                       i < j =>
                          /\ scored[i].score >= scored[j].score
                          /\ scored[i].score = scored[j].score
                                => scored[i].fuzzy_rank < scored[j].fuzzy_rank
                          /\ SortTextLess(items[i].sort_text, items[j].sort_text)
                 /\ \A i \in DOMAIN items :
                       /\ items[i].label = scored[i].word
                       /\ items[i].text_edit.range =
                             [start |-> Utf16Position(s, start),
                              end |-> Utf16Position(s, o)]

\* C15: for every unknown word under the cursor, code_action returns a list
\* whose first element is the "add to dictionary" action for that word,
\* followed by at most 10 replacement actions, one per fuzzy_match result
\* in its order; also when fuzzy_match finds no suggestion.
C15_UnknownWordGetsAddToDictionary ==
    (request.method = "code_action" /\ documents[Uri] # <<>>) =>
        LET s == documents[Uri][1].source
            o == request.index
            a == RunStart(s, o)
            b == RunEnd(s, o)
            word == SubSeq(s, a + 1, b)
            suggestions == fuzzy_match(words, word,
                                       IF Len(word) <= 3 THEN 1 ELSE 2, 10)
            result == response.code_action.result
        IN  (a < b /\ ~contains(words, word)) =>
                /\ result # <<>>
                /\ Len(result[1]) = 1 + Len(suggestions)
                /\ Len(suggestions) <= 10
                /\ result[1][1].command.command = "polski-ls.addToDictionary"
                /\ result[1][1].command.arguments.word = word
                /\ \A k \in DOMAIN suggestions :
                      /\ result[1][k + 1].edit.new_text =
                            apply_capitalization(word, suggestions[k].word)
                      /\ result[1][k + 1].edit.range =
                            [start |-> Utf16Position(s, a),
                             end |-> Utf16Position(s, b)]

\* C20: the completions returned for a prefix are the highest-scoring among
\* all entries of the store within the prefix's edit-distance budget: every
\* entry in the budget that scores strictly higher than some returned item
\* is returned too, whatever the size of the dictionary.
C20_CompletionsAreTheTopScoring ==
    (request.method = "completion" /\ response.completion.items # <<>>) =>
        LET prefix == response.completion.prefix
            items == response.completion.items
            scored == response.completion.scored
            Dist(k) == levenshtein_distance(prefix, words[k].word)
            Score(k) == calculate_completion_score(prefix, words[k].word, Dist(k),
                                                   words[k].is_common)
            InBudget == {k \in DOMAIN words :
                            Dist(k) <= IF Len(prefix) <= 3 THEN 1 ELSE 2}
            lowest == scored[Len(items)].score
        IN  /\ \A i \in DOMAIN items : scored[i].score >= lowest
            /\ Cardinality({k \in InBudget : Score(k) > lowest})
                 <= Cardinality({i \in DOMAIN items : scored[i].score > lowest})

(***************************************************************************)
(* The session: the handlers of Backend run concurrently.  A handler      *)
(* gives way to the others at its await points: taking a lock and sending *)
(* to the client.  What it does between two of them is one step.          *)
(***************************************************************************)
Tasks == 1..MaxTasks

\* a variant that stores the new source and leaves the line index of the
\* document that is already there
InsertKeepingLineIndex(docs, uri, state) ==
    [docs EXCEPT ![uri] =
        IF @ = <<>> THEN <<state>>
        ELSE <<[source |-> state.source, line_index |-> @[1].line_index]>>]

\* documents.insert(uri, DocumentState { source, line_index })
insert(docs, uri, state) == [docs EXCEPT ![uri] = <<state>>]

\* documents.remove(&uri)
remove(docs, uri) == [docs EXCEPT ![uri] = <<>>]

\* the texts the client opens and changes the document to: "aaa", and
\* "aaa", newline, "ańa"
SessionTexts ==
    { BackendWord.aaa,
      <<Ch.a, Ch.a, Ch.a, Ch.newline, Ch.a, Ch.n_acute, Ch.a>> }

\* the position the client asks completions and code actions at: in the
\* second line of the longer text, beyond the end of the shorter one
SessionPositions == {[line |-> 1, character |-> 2]}

\* the dictionary of the session
SessionStore == <<Entry(BackendWord.aaa, TRUE), Entry(BackendWord.aan, FALSE)>>

\* the word the client asks to add to the dictionary: "ańa"
SessionWords == {<<Ch.a, Ch.n_acute, Ch.a>>}

\* params.arguments of workspace/executeCommand: none, or one object with
\* a word and a uri string, which may not parse as a Uri
SessionArguments ==
    {<<>>} \cup {<<[word |-> w, uri |-> u]>> :
                     w \in SessionWords, u \in {Uri, "not a uri"}}

IdleTask == [handler |-> "idle", pc |-> "idle", state |-> <<>>, k |-> 0,
             diagnostics |-> <<>>, position |-> NoPosition, arguments |-> <<>>,
             found |-> <<>>]

NotPublished == [handler |-> "none", diagnostics |-> <<>>]

SessionIdle ==
    /\ tasks = [t \in Tasks |-> IdleTask]
    /\ documents_lock = 0
    /\ dictionary_lock = 0
    /\ published = NotPublished

\* Backend::new: no document, the dictionary constructed, no handler running
SessionInit ==
    /\ SessionIdle
    /\ BackendIdle
    /\ words = SessionStore
    /\ loaded = words
    /\ user_dict_path = "Some"
    /\ user_dict_file = <<>>
    /\ call = NoCall

\* the loop of publish_diagnostics up to its next dictionary.lock(): the
\* first word from the k-th on that is looked up
RECURSIVE NextChecked(_, _)
NextChecked(found, k) ==
    IF k > Len(found) \/ IsCheckedWord(found[k].word) THEN k
    ELSE NextChecked(found, k + 1)

\* did_open and did_change up to the first await of publish_diagnostics
StartDiagnostics(handler, text) ==
    LET found == extract_words(text)
        k == NextChecked(found, 1)
    IN  [handler |-> handler,
         pc |-> IF k > Len(found) THEN "publish" ELSE "diagnose",
         state |-> <<DocumentState(text)>>,
         k |-> k,
         diagnostics |-> <<>>,
         position |-> NoPosition,
         arguments |-> <<>>,
         found |-> found]

\* textDocument/didOpen arrives
DidOpen(t, text) ==
    /\ tasks[t].handler = "idle"
    /\ tasks' = [tasks EXCEPT ![t] = StartDiagnostics("did_open", text)]
    /\ UNCHANGED <<documents, request, response, documents_lock,
                   dictionary_lock, published, notSessionVars>>

\* textDocument/didChange arrives: without content changes it returns
DidChange(t, content_changes) ==
    /\ tasks[t].handler = "idle"
    /\ tasks' = IF content_changes = <<>> THEN tasks
                ELSE [tasks EXCEPT ![t] =
                        StartDiagnostics("did_change",
                                         content_changes[Len(content_changes)])]
    /\ UNCHANGED <<documents, request, response, documents_lock,
                   dictionary_lock, published, notSessionVars>>

\* textDocument/didClose arrives
DidClose(t) ==
    /\ tasks[t].handler = "idle"
    /\ tasks' = [tasks EXCEPT ![t] = [IdleTask EXCEPT !.handler = "did_close",
                                                      !.pc = "publish"]]
    /\ UNCHANGED <<documents, request, response, documents_lock,
                   dictionary_lock, published, notSessionVars>>

\* publish_diagnostics: dictionary.lock().await, contains, the push, the
\* guard dropped at the end of the iteration, and on to the next lock
DiagnoseWord(t) ==
    /\ tasks[t].pc = "diagnose"
    /\ dictionary_lock = 0
    /\ LET task == tasks[t]
           source == task.state[1].source
           found == task.found
           k == NextChecked(found, task.k + 1)
       IN  tasks' = [tasks EXCEPT ![t] =
              [task EXCEPT
                 !.diagnostics =
                     IF ~contains(words, found[task.k].word)
                     THEN Append(@, Diagnostic(source, task.state[1].line_index,
                                               found[task.k]))
                     ELSE @,
                 !.k = k,
                 !.pc = IF k > Len(found) THEN "publish" ELSE "diagnose"]]
    /\ UNCHANGED <<documents, request, response, documents_lock,
                   dictionary_lock, published, notSessionVars>>

\* client.publish_diagnostics(uri, diagnostics, None).await
ClientPublishDiagnostics(t) ==
    /\ tasks[t].pc = "publish"
    /\ published' = [handler |-> tasks[t].handler,
                     diagnostics |-> tasks[t].diagnostics]
    /\ tasks' = IF tasks[t].handler = "execute_command"
                THEN [tasks EXCEPT ![t] = IdleTask]
                ELSE [tasks EXCEPT ![t].pc =
                        IF tasks[t].handler = "did_close" THEN "remove"
                        ELSE "insert"]
    /\ UNCHANGED <<documents, request, response, documents_lock,
                   dictionary_lock, notSessionVars>>

\* did_open, did_change: documents.lock().await, insert, return
Insert(t) ==
    /\ tasks[t].pc = "insert"
    /\ documents_lock = 0
    /\ documents' = insert(documents, Uri, tasks[t].state[1])
    /\ tasks' = [tasks EXCEPT ![t] = IdleTask]
    /\ UNCHANGED <<request, response, documents_lock, dictionary_lock,
                   published, notSessionVars>>

\* did_close: documents.lock().await, remove, return
Remove(t) ==
    /\ tasks[t].pc = "remove"
    /\ documents_lock = 0
    /\ documents' = remove(documents, Uri)
    /\ tasks' = [tasks EXCEPT ![t] = IdleTask]
    /\ UNCHANGED <<request, response, documents_lock, dictionary_lock,
                   published, notSessionVars>>

\* textDocument/completion arrives
CompletionRequest(t, pos) ==
    /\ tasks[t].handler = "idle"
    /\ tasks' = [tasks EXCEPT ![t] = [IdleTask EXCEPT !.handler = "completion",
                                                      !.pc = "lock_documents",
                                                      !.position = pos]]
    /\ UNCHANGED <<documents, request, response, documents_lock,
                   dictionary_lock, published, notSessionVars>>

\* textDocument/codeAction arrives
CodeActionRequest(t, pos) ==
    /\ tasks[t].handler = "idle"
    /\ tasks' = [tasks EXCEPT ![t] = [IdleTask EXCEPT !.handler = "code_action",
                                                      !.pc = "lock_documents",
                                                      !.position = pos]]
    /\ UNCHANGED <<documents, request, response, documents_lock,
                   dictionary_lock, published, notSessionVars>>

\* does the handler go on to dictionary.lock() with this document?
ReachesDictionary(handler, document, pos) ==
    IF handler = "completion"
    THEN Len(generate_completions(document, <<>>, pos).prefix) >= 2
    ELSE code_action(document, <<>>, Uri, pos).word # <<>>

\* generate_completions, code_action: documents.lock().await and on to
\* dictionary.lock(), or to an early return that drops the guard
LockDocuments(t) ==
    /\ tasks[t].pc = "lock_documents"
    /\ documents_lock = 0
    /\ IF ReachesDictionary(tasks[t].handler, documents[Uri], tasks[t].position)
       THEN /\ documents_lock' = t
            /\ tasks' = [tasks EXCEPT ![t].pc = "lock_dictionary",
                                      ![t].state = documents[Uri]]
       ELSE /\ documents_lock' = 0
            /\ tasks' = [tasks EXCEPT ![t] = IdleTask]
    /\ UNCHANGED <<documents, request, response, dictionary_lock, published,
                   notSessionVars>>

\* generate_completions, code_action: dictionary.lock().await returns
LockDictionary(t) ==
    /\ tasks[t].pc = "lock_dictionary"
    /\ dictionary_lock = 0
    /\ dictionary_lock' = t
    /\ tasks' = [tasks EXCEPT ![t].pc = "respond"]
    /\ UNCHANGED <<documents, request, response, documents_lock, published,
                   notSessionVars>>

\* generate_completions, code_action: the lookups in the document and the
\* dictionary it holds (the functions of the handler specification), both
\* guards dropped, return
Respond(t) ==
    /\ tasks[t].pc = "respond"
    /\ documents_lock' = 0
    /\ dictionary_lock' = 0
    /\ tasks' = [tasks EXCEPT ![t] = IdleTask]
    /\ UNCHANGED <<documents, request, response, published, notSessionVars>>

\* a variant of drop that leaves the guard with its holder
KeepGuard(holder) == holder

\* drop(guard): the lock has no holder
drop(holder) == 0

\* workspace/executeCommand arrives: another command, or one without
\* arguments, returns Ok(None)
ExecuteCommandRequest(t, command, arguments) ==
    /\ tasks[t].handler = "idle"
    /\ tasks' = IF command = CMD_ADD_TO_DICTIONARY /\ arguments # <<>>
                THEN [tasks EXCEPT ![t] =
                        [IdleTask EXCEPT !.handler = "execute_command",
                                         !.pc = "add_user_word",
                                         !.arguments = arguments]]
                ELSE tasks
    /\ UNCHANGED <<documents, request, response, documents_lock,
                   dictionary_lock, published, notSessionVars>>

\* execute_command: dictionary.lock().await and add_user_word; on an error
\* the guard stays until the return, otherwise it is dropped
ExecuteAddUserWord(t, io) ==
    /\ tasks[t].pc = "add_user_word"
    /\ dictionary_lock = 0
    /\ LET out == add_user_word(words, user_dict_path, user_dict_file,
                                tasks[t].arguments[1].word, io)
       IN  /\ words' = out.words
           /\ user_dict_file' = out.file
           /\ dictionary_lock' = IF out.result = "Err" THEN t ELSE drop(t)
           /\ tasks' = [tasks EXCEPT ![t].pc =
                           IF out.result = "Err" THEN "show_error"
                           ELSE "show_message"]
    /\ UNCHANGED <<documents, request, response, documents_lock, published,
                   loaded, user_dict_path, call, docVars, levVars, rankVars>>

\* execute_command: client.show_message(ERROR, ..).await, return Ok(None)
ShowError(t) ==
    /\ tasks[t].pc = "show_error"
    /\ dictionary_lock' = drop(t)
    /\ tasks' = [tasks EXCEPT ![t] = IdleTask]
    /\ UNCHANGED <<documents, request, response, documents_lock, published,
                   notSessionVars>>

\* execute_command: client.show_message(INFO, ..).await, uri_str.parse()
ShowMessage(t) ==
    /\ tasks[t].pc = "show_message"
    /\ tasks' = IF tasks[t].arguments[1].uri = Uri
                THEN [tasks EXCEPT ![t].pc = "refresh"]
                ELSE [tasks EXCEPT ![t] = IdleTask]
    /\ UNCHANGED <<documents, request, response, documents_lock,
                   dictionary_lock, published, notSessionVars>>

\* execute_command: documents.lock().await, the clones, drop(documents),
\* and on to publish_diagnostics; without the document it returns
Refresh(t) ==
    /\ tasks[t].pc = "refresh"
    /\ documents_lock = 0
    /\ documents_lock' = drop(t)
    /\ tasks' = IF documents[Uri] = <<>>
                THEN [tasks EXCEPT ![t] = IdleTask]
                ELSE LET found == extract_words(documents[Uri][1].source)
                         k == NextChecked(found, 1)
                     IN  [tasks EXCEPT ![t] =
                            [tasks[t] EXCEPT
                               !.pc = IF k > Len(found) THEN "publish"
                                      ELSE "diagnose",
                               !.state = documents[Uri],
                               !.k = k,
                               !.found = found]]
    /\ UNCHANGED <<documents, request, response, dictionary_lock, published,
                   notSessionVars>>

SessionNext ==
    \E t \in Tasks :
        \/ \E text \in SessionTexts : DidOpen(t, text)
        \/ \E content_changes \in {<<>>} \cup {<<text>> : text \in SessionTexts} :
              DidChange(t, content_changes)
        \/ DidClose(t)
        \/ \E pos \in SessionPositions : CompletionRequest(t, pos)
        \/ \E pos \in SessionPositions : CodeActionRequest(t, pos)
        \/ DiagnoseWord(t)
        \/ ClientPublishDiagnostics(t)
        \/ Insert(t)
        \/ Remove(t)
        \/ LockDocuments(t)
        \/ LockDictionary(t)
        \/ Respond(t)
        \/ \E command \in {CMD_ADD_TO_DICTIONARY, "other"},
              arguments \in SessionArguments :
              ExecuteCommandRequest(t, command, arguments)
        \/ \E io \in IoOutcomes : ExecuteAddUserWord(t, io)
        \/ ShowError(t)
        \/ ShowMessage(t)
        \/ Refresh(t)

(***************************************************************************)
(* Claims on the session specification (Spec).                             *)
(***************************************************************************)
\* li holds exactly the line starts of the text s: 0, and the offset after
\* each newline, in ascending order
IsLineIndexOf(li, s) ==
    /\ Len(li) = 1 + Cardinality({p \in DOMAIN s : s[p] = Ch.newline})
    /\ li[1] = 0
    /\ \A i \in 2..Len(li) : li[i - 1] < li[i] /\ s[li[i]] = Ch.newline

\* C16: in every reachable state, under any interleaving of the did_open,
\* did_change, did_close, completion and code_action handlers, each
\* DocumentState in the documents map pairs a source with the LineIndex
\* built from exactly that source, and so does the document a reader works
\* on, which is the one in the map.
C16_SnapshotPairsSourceWithItsLineIndex ==
    /\ \A u \in DOMAIN documents :
          documents[u] # <<>> =>
              IsLineIndexOf(documents[u][1].line_index, documents[u][1].source)
    /\ \A t \in Tasks :
          tasks[t].handler \in {"completion", "code_action"} /\ tasks[t].state # <<>>
             => /\ IsLineIndexOf(tasks[t].state[1].line_index,
                                 tasks[t].state[1].source)
                /\ tasks[t].state = documents[Uri]

\* C16 witness: a reader holds the two-line document under both locks while
\* a did_change with the one-line text waits to insert it
C16_Witness ==
    /\ documents[Uri] # <<>>
    /\ documents[Uri][1].line_index = <<0, 4>>
    /\ \E t \in Tasks :
          /\ tasks[t].handler = "completion"
          /\ tasks[t].pc = "respond"
          /\ tasks[t].state = documents[Uri]
    /\ \E t \in Tasks :
          /\ tasks[t].handler = "did_change"
          /\ tasks[t].pc = "insert"
          /\ tasks[t].state[1].source = BackendWord.aaa

\* C19: when several did_change or did_open handlers for the document ran
\* concurrently and all handlers have completed, the diagnostics published
\* last for the document are the ones of the snapshot that is stored in the
\* documents map.
C19_PublishedDiagnosticsAreOfStoredSnapshot ==
    (/\ \A t \in Tasks : tasks[t].handler = "idle"
     /\ documents[Uri] # <<>>
     /\ published.handler \in {"did_open", "did_change"})
    => published.diagnostics =
          publish_diagnostics(documents[Uri][1].source,
                              documents[Uri][1].line_index, words)

\* the steps of the handler of task t that wait for nothing but the client
\* or the runtime
ClientStep(t) ==
    \/ ClientPublishDiagnostics(t)
    \/ Respond(t)
    \/ ShowError(t)
    \/ ShowMessage(t)

\* the steps of the handler of task t that begin with documents.lock().await
DocumentsStep(t) ==
    \/ Insert(t)
    \/ Remove(t)
    \/ LockDocuments(t)
    \/ Refresh(t)

\* the steps of the handler of task t that begin with dictionary.lock().await
DictionaryStep(t) ==
    \/ DiagnoseWord(t)
    \/ LockDictionary(t)
    \/ \E io \in IoOutcomes : ExecuteAddUserWord(t, io)

\* task t is at a documents.lock().await
WaitsForDocuments(t) ==
    tasks[t].pc \in {"insert", "remove", "lock_documents", "refresh"}

\* task t is at a dictionary.lock().await
WaitsForDictionary(t) ==
    tasks[t].pc \in {"diagnose", "lock_dictionary", "add_user_word"}

\* no handler waits for the documents lock while it holds the dictionary lock
DocumentsBeforeDictionary ==
    \A t \in Tasks : dictionary_lock = t => ~WaitsForDocuments(t)

\* while some handler is running, some handler can take a step
NoDeadlock ==
    (\E t \in Tasks : tasks[t].handler # "idle") =>
        \E t \in Tasks :
            ENABLED (ClientStep(t) \/ DocumentsStep(t) \/ DictionaryStep(t))

\* a lock is held by a running handler only
LocksHeldByHandlers ==
    /\ documents_lock \in {0} \cup {t \in Tasks : tasks[t].handler # "idle"}
    /\ dictionary_lock \in {0} \cup {t \in Tasks : tasks[t].handler # "idle"}

\* C21: under any interleaving of the completion, code_action,
\* execute_command, did_open, did_change and did_close handlers, no handler
\* waits for the documents lock while it holds the dictionary lock, some
\* running handler can always take a step (no deadlock), and every handler
\* that starts eventually returns holding neither lock
C21_LocksOrderedAndReleased ==
    /\ [](DocumentsBeforeDictionary /\ NoDeadlock /\ LocksHeldByHandlers)
    /\ \A t \in Tasks :
          (tasks[t].handler # "idle") ~>
              (tasks[t].handler = "idle" /\ documents_lock # t
                                         /\ dictionary_lock # t)

\* a completion or code_action handler holds the documents lock and waits
\* for the dictionary lock, which an execute_command handler holds
C21_Witness ==
    \E t \in Tasks, u \in Tasks :
        /\ tasks[t].pc = "lock_dictionary"
        /\ documents_lock = t
        /\ tasks[u].handler = "execute_command"
        /\ dictionary_lock = u

SpecDocInit == DocInit /\ LevIdle /\ DictIdle /\ RankIdle /\ BackendIdle /\ SessionIdle

SpecDoc == SpecDocInit /\ [][DocNext]_vars

SpecDictInit == DictInit /\ DocIdle /\ LevIdle /\ RankIdle /\ BackendIdle /\ SessionIdle

SpecDict == SpecDictInit /\ [][DictNext]_vars

SpecLookupInit == LookupInit /\ DocIdle /\ LevIdle /\ RankIdle /\ BackendIdle /\ SessionIdle

SpecLookup == SpecLookupInit /\ [][LookupNext]_vars

SpecLevInit == LevInit /\ DocIdle /\ DictIdle /\ RankIdle /\ BackendIdle /\ SessionIdle

SpecLev == SpecLevInit /\ [][LevNext]_vars

SpecRankInit == RankInit /\ DocIdle /\ LevIdle /\ DictIdle /\ BackendIdle /\ SessionIdle

SpecRank == SpecRankInit /\ [][RankNext]_vars

SpecBackendInit == BackendInit /\ DocIdle /\ LevIdle /\ RankIdle /\ SessionIdle

SpecBackend == SpecBackendInit /\ [][BackendNext]_vars

SpecInit == SessionInit /\ DocIdle /\ LevIdle /\ RankIdle

Spec == SpecInit /\ [][SessionNext]_vars

\* the runtime polls every handler that can go on, and the locks of
\* tokio::sync::Mutex are handed out in the order of the requests, so a
\* handler at a lock().await is not passed over for ever
Fairness ==
    \A t \in Tasks :
        SF_vars(ClientStep(t) \/ DocumentsStep(t) \/ DictionaryStep(t))

SpecFair == SpecInit /\ [][SessionNext]_vars /\ Fairness

====
